---- MODULE Spec2Model ----
(***************************************************************************)
(* A model of the client-side handlers of the AI Studio demo:              *)
(*   - LiveConversation  (src/unnamed/part_001, lines 309-491)             *)
(*   - AudioTranscriber  (src/unnamed/part_001, lines 494-581)             *)
(*   - the request handlers that raise a loading flag (chat send, image    *)
(*     generate, image analyze/edit, video generate, video analyze,        *)
(*     transcribe, text-to-speech)                                         *)
(*   - VideoAnalyzer.extractFrames (src/unnamed/part_000, lines 242-267)   *)
(*   - ChatPlayground (src/App.tsx, lines 100-354)                         *)
(*   - VideoGenerator (src/unnamed/part_000, lines 20-188)                 *)
(* The vendor service, the browser media APIs and the user are the         *)
(* environment: their answers are nondeterministic inputs.                 *)
(***************************************************************************)
EXTENDS Integers, Sequences, FiniteSets, TLC

\* ------------------------------------------------------------------ bounds
\* startSession calls explored (each creates two audio contexts, at most one
\* microphone stream and at most one live session).
MaxSessions == 2
\* Server messages delivered to onmessage handlers.
MaxMsgs == 2
\* Ticks of an output audio context's clock.
MaxTime == 2
\* Longest decoded audio buffer (in clock ticks).
MaxDur == 1
\* Calls of handleStartRecording explored (each asks for one microphone stream).
MaxRecordings == 3
\* Times one run of a request handler goes round its loop (stream chunks of
\* the chat, polls of the video generation).
MaxLoops == 2
\* extractFrames: frame rates tried, and the longest video in quarter seconds.
MaxFps == 3
MaxQuarters == 9
\* JavaScript numbers are binary floating point and every sum and quotient is
\* rounded to the nearest representable value (ties to even).  The model keeps
\* that rounding with a significand of MantissaBits bits (binary64 has 53) and
\* counts time in units of 2^-FracBits seconds.
MantissaBits == 5
FracBits == 6
\* Chat: sends accepted, chunks of one response stream, geolocation lookups.
MaxSends == 2
MaxChunks == 2
MaxLookups == 2
\* Video generation: runs of handleGenerate, polls of one run, and the step
\* of the clock in milliseconds.
MaxRuns == 2
MaxPolls == 2
TickMs == 5000
\* Microphone encoder: samples of one onaudioprocess block (4096 in the
\* program) and blocks handled.
BlockLen == 2
MaxBlocks == 2
\* Stream updater: the longest message list it is called on.
MaxPrev == 2
\* analyzeVideo: the longest video in whole seconds.
MaxSeconds == 8

Max(a, b) == IF a >= b THEN a ELSE b

\* =================================================================== state
VARIABLES
    \* ---- LiveConversation: React state
    mounted,                \* the component is mounted
    isSessionActive,
    transcription,          \* sequence of completed turns
    currentTurn,            \* [user, model]
    \* ---- LiveConversation: refs
    sessionPromiseRef,      \* 0 (null) or the id of a live session
    inputAudioContextRef,   \* 0 (null) or the id of an audio context
    outputAudioContextRef,
    mediaStreamRef,         \* 0 (null) or the id of a microphone stream
    scriptProcessorRef,     \* 0 (null) or the id of a script processor
    nextStartTimeRef,
    sourcesRef,             \* set of chunk ids (their AudioBufferSourceNodes)
    \* ---- LiveConversation: the objects the refs point to, per startSession call
    startPc,                \* position of each startSession call
    closureTurn,            \* currentTurn as captured by that call's callbacks
    inputCtx,               \* "none" | "running" | "closed"
    outputCtx,
    clock,                  \* currentTime of each output context
    micStream,              \* "none" | "live" | "stopped"
    scriptProc,             \* "none" | "connected" | "disconnected"
    liveSession,            \* "none" | "connecting" | "open" | "closing" | "closed"
    closeQueued,            \* a .then(session => session.close()) waits for connect
    \* ---- LiveConversation: onmessage handlers
    nMsgs,                  \* messages delivered so far
    message,                \* the message last delivered to onmessage
    decoding,               \* handlers suspended at await decodeAudioData
    sourceState,            \* per chunk: "none" | "scheduled" | "ended" | "stopped"
    playLog,                \* calls made on the output: source.start(at), resets
    liveAlert,              \* the last alert() of LiveConversation: "none" | "microphone" | "session"
    \* ---- AudioTranscriber: React state
    trMounted,              \* the component is mounted
    isRecording,
    trIsLoading,            \* isLoading of AudioTranscriber
    trTranscription,        \* transcription of AudioTranscriber (the displayed text)
    \* ---- AudioTranscriber: refs
    mediaRecorderRef,       \* 0 (null) or the id of a MediaRecorder
    audioChunksRef,         \* the recorded chunks: the recorder each came from
    \* ---- AudioTranscriber: the recorders, per handleStartRecording call
    recorder,               \* "none" | "requested" | "denied" | "recording" | "stopping" | "inactive"
    recStream,              \* the recorder's microphone stream: "none" | "live" | "stopped"
    stopPc,                 \* handleStopRecording of that recorder: "idle" | "fileToBase64" | "generateContent" | "done"
    trAlert,                \* the last alert() of AudioTranscriber: "none" | "microphone" | "transcribe"
    \* ---- the request handlers that raise a loading flag
    running,                \* the handler in flight, or "none"
    hpc,                    \* the awaited call it is suspended at (where the last run failed, 0 after a run that did not)
    isLoading,              \* per handler: the isLoading state of its component
    failed,                 \* per handler: a call failed (or the try block threw) in its last run
    surfaced,               \* per handler: what its last run showed the user: "none" | "alert" | "inline"
    escaped,                \* per handler: an exception left its last run uncaught
    requests,               \* vendor requests issued by the run in flight (by the last run)
    loops,                  \* loop iterations of the run in flight
    \* ---- VideoAnalyzer.extractFrames
    efPc,                   \* "idle" | "seeking" | "resolved" | "stuck" (seeked with no 2d context)
    efFps,                  \* the fps argument
    efDuration,             \* videoElement.duration
    efContext,              \* canvas.getContext('2d') returned a context
    efCurrentTime,          \* the local currentTime
    efVideoTime,            \* videoElement.currentTime (the position the pending seek shows)
    efFrames,               \* frames: the video position each captured image shows
    efSeeks,                \* seeked events handled
    efResult,               \* what the promise resolved with
    \* ---- ChatPlayground
    messages,               \* the message list: records [sender, text, sources]
    input,                  \* the text of the input box (a sequence of characters)
    chatIsLoading,          \* isLoading
    chatError,              \* error: <<>> for null, else the text
    useSearch, useMaps, useThinking, useLite,
    userLocation,           \* "null" or a position
    lookups,                \* geolocation lookups pending
    nLookups,               \* geolocation lookups started
    chatPc,                 \* "idle" | "generateContentStream" | "streaming" | "failed" (idle after a failed send)
    requestPayload,         \* the payload of the last request sent
    chunks,                 \* the chunks the stream of the run in flight (of the last run) has yielded
    nSends,                 \* sends accepted
    sendOutcome,            \* how the last call of handleSendMessage went: "none" | "accepted" | "ignored"
    \* ---- VideoGenerator
    vgPrompt,               \* prompt (a sequence of characters)
    vgImage,                \* an image has been uploaded
    aspectRatio,
    isKeyReady,
    keyChecked,             \* the checkKey effect has answered
    vgIsLoading,            \* isLoading
    videoUrl,               \* 0 for null, else the object URL made by run n
    vgPc,                   \* the awaited call handleGenerate is suspended at, or "idle"
    operation,              \* the operation as last reported: [done, link]
    vgTimer,                \* milliseconds left on the setTimeout
    vgElapsed,              \* milliseconds since the operation was last reported
    nPolls,                 \* getVideosOperation calls of the run
    nRuns,                  \* runs of handleGenerate started
    vgFetched,              \* the download link was fetched in the run
    imagePayload,           \* the run has built an imagePayload
    vgAlert,                \* the last alert(): "none" | "input" | "key" | "failed" | "dialog"
    \* ---- the onaudioprocess callback of LiveConversation
    inputData,              \* the block of captured samples, each in units of 1/65536
    int16,                  \* the Int16Array filled from it
    pcmBlob,                \* the blob built from it: [bytes, mimeType]
    nBlocks,                \* blocks handled
    nBlobs,                 \* blobs built
    \* ---- the microphone path of LiveConversation
    audioEvents,            \* per script processor: an audioprocess event is queued
    realtimeInput,          \* the sendRealtimeInput calls made: [proc, to, closeInvoked, stopped]
    \* ---- window.aistudio, as VideoGenerator and ApiKeySelector see it
    selectedKey,            \* an API key has been selected (reported or chosen)
    \* ---- the console of VideoGenerator
    vgError,                \* the message of the last error handleGenerate caught
    \* ---- the setMessages updater of the stream loop, called on its own
    updPc,                  \* "idle" | "ready" | "once" | "twice"
    updChunk,               \* the chunk the updater closes over
    updGiven,               \* the message list passed as prev, as it was when passed
    updPrev,                \* the objects of that list, as they are now
    updOnce,                \* what the first call returned
    updTwice                \* what the second call returned

liveVars == <<mounted, isSessionActive, transcription, currentTurn,
              sessionPromiseRef, inputAudioContextRef, outputAudioContextRef,
              mediaStreamRef, scriptProcessorRef, nextStartTimeRef, sourcesRef,
              startPc, closureTurn, inputCtx, outputCtx, clock, micStream,
              scriptProc, liveSession, closeQueued, nMsgs, message, decoding,
              sourceState, playLog, liveAlert>>

trVars == <<trMounted, isRecording, trIsLoading, trTranscription,
            mediaRecorderRef, audioChunksRef, recorder, recStream, stopPc, trAlert>>

hVars == <<running, hpc, isLoading, failed, surfaced, escaped, requests, loops>>

efVars == <<efPc, efFps, efDuration, efContext, efCurrentTime, efVideoTime,
            efFrames, efSeeks, efResult>>

chatVars == <<messages, input, chatIsLoading, chatError, useSearch, useMaps,
              useThinking, useLite, userLocation, lookups, nLookups, chatPc,
              requestPayload, chunks, nSends, sendOutcome>>

vgVars == <<vgPrompt, vgImage, aspectRatio, isKeyReady, keyChecked, vgIsLoading,
            videoUrl, vgPc, operation, vgTimer, vgElapsed, nPolls, nRuns,
            vgFetched, imagePayload, vgAlert>>

encVars == <<inputData, int16, pcmBlob, nBlocks, nBlobs>>

micVars == <<audioEvents, realtimeInput>>

keyVars == <<selectedKey>>

logVars == <<vgError>>

updVars == <<updPc, updChunk, updGiven, updPrev, updOnce, updTwice>>

vars == <<liveVars, trVars, hVars, efVars, chatVars, vgVars, encVars, micVars,
          keyVars, logVars, updVars>>

\* The components share no state: a step of one leaves the others alone.
liveFrame ==
    UNCHANGED <<trVars, hVars, efVars, chatVars, vgVars, encVars, micVars, keyVars, logVars, updVars>>
trFrame ==
    UNCHANGED <<liveVars, hVars, efVars, chatVars, vgVars, encVars, micVars, keyVars, logVars, updVars>>
hFrame ==
    UNCHANGED <<liveVars, trVars, efVars, chatVars, vgVars, encVars, micVars, keyVars, logVars, updVars>>
efFrame ==
    UNCHANGED <<liveVars, trVars, hVars, chatVars, vgVars, encVars, micVars, keyVars, logVars, updVars>>
chatFrame ==
    UNCHANGED <<liveVars, trVars, hVars, efVars, vgVars, encVars, micVars, keyVars, logVars, updVars>>
vgFrame ==
    UNCHANGED <<liveVars, trVars, hVars, efVars, chatVars, encVars, micVars, keyVars, logVars, updVars>>
encFrame ==
    UNCHANGED <<liveVars, trVars, hVars, efVars, chatVars, vgVars, micVars, keyVars, logVars, updVars>>
micFrame ==
    UNCHANGED <<liveVars, trVars, hVars, efVars, chatVars, vgVars, encVars, keyVars, logVars, updVars>>
\* A step of the key check or of the key dialog leaves the other components alone.
keyFrame ==
    UNCHANGED <<liveVars, trVars, hVars, efVars, chatVars, encVars, micVars, logVars,
                updVars>>
\* A step of handleGenerate that may reach the catch block.
catchFrame ==
    UNCHANGED <<liveVars, trVars, hVars, efVars, chatVars, encVars, micVars, keyVars,
                updVars>>
updFrame ==
    UNCHANGED <<liveVars, trVars, hVars, efVars, chatVars, vgVars, encVars, micVars,
                keyVars, logVars>>

\* ======================================================= LiveConversation
SessionIds == 1..MaxSessions
ChunkIds == 1..MaxMsgs

EmptyTurn == [user |-> <<>>, model |-> <<>>]

\* A LiveServerMessage, as far as onmessage reads it: the two transcription
\* texts (<<>>: absent), turnComplete, the audio part (0: absent, else the
\* duration of the decoded buffer) and interrupted.
Messages == [inT : {<<>>, <<"u">>}, outT : {<<>>, <<"m">>},
             turnComplete : BOOLEAN, audio : 0..MaxDur, interrupted : BOOLEAN]

NoMessage == [inT |-> <<>>, outT |-> <<>>, turnComplete |-> FALSE,
              audio |-> 0, interrupted |-> FALSE]

\* React drops a state update of a component that is no longer mounted.
SetState(new, old) == IF mounted THEN new ELSE old

LiveInit ==
    /\ mounted = TRUE
    /\ isSessionActive = FALSE
    /\ transcription = <<>>
    /\ currentTurn = EmptyTurn
    /\ sessionPromiseRef = 0
    /\ inputAudioContextRef = 0
    /\ outputAudioContextRef = 0
    /\ mediaStreamRef = 0
    /\ scriptProcessorRef = 0
    /\ nextStartTimeRef = 0
    /\ sourcesRef = {}
    /\ startPc = [a \in SessionIds |-> "unused"]
    /\ closureTurn = [a \in SessionIds |-> EmptyTurn]
    /\ inputCtx = [a \in SessionIds |-> "none"]
    /\ outputCtx = [a \in SessionIds |-> "none"]
    /\ clock = [a \in SessionIds |-> 0]
    /\ micStream = [a \in SessionIds |-> "none"]
    /\ scriptProc = [a \in SessionIds |-> "none"]
    /\ liveSession = [a \in SessionIds |-> "none"]
    /\ closeQueued = [a \in SessionIds |-> FALSE]
    /\ nMsgs = 0
    /\ message = NoMessage
    /\ decoding = {}
    /\ sourceState = [c \in ChunkIds |-> "none"]
    /\ playLog = <<>>
    /\ liveAlert = "none"

\* The output forgets its schedule: sources stopped, next start time back to 0.
LogReset(log) ==
    IF log # <<>> /\ log[Len(log)].kind = "start"
    THEN Append(log, [kind |-> "reset", id |-> 0, at |-> 0, now |-> 0,
                      dur |-> 0, ctx |-> 0])
    ELSE log

\* A forEach that leaves every source playing.
StopSourcesNone(states, set) == states

\* sourcesRef.current.forEach(source => source.stop())
StopSources(states, set) ==
    [c \in ChunkIds |-> IF c \in set THEN "stopped" ELSE states[c]]

\* stopSession, run on the session table `sess` (the table as the caller
\* leaves it: onerror and onclose first record what happened to their session).
stopSession(sess) ==
    /\ IF sessionPromiseRef # 0
       THEN /\ liveSession' = [sess EXCEPT ![sessionPromiseRef] =
                                  IF @ = "open" THEN "closing" ELSE @]
            /\ closeQueued' = [closeQueued EXCEPT ![sessionPromiseRef] =
                                  @ \/ sess[sessionPromiseRef] = "connecting"]
       ELSE /\ liveSession' = sess
            /\ UNCHANGED closeQueued
    /\ sessionPromiseRef' = 0
    /\ micStream' = IF mediaStreamRef # 0
                    THEN [micStream EXCEPT ![mediaStreamRef] = "stopped"]
                    ELSE micStream
    /\ mediaStreamRef' = 0
    /\ scriptProc' = IF scriptProcessorRef # 0
                     THEN [scriptProc EXCEPT ![scriptProcessorRef] = "disconnected"]
                     ELSE scriptProc
    /\ scriptProcessorRef' = 0
    /\ inputCtx' = IF inputAudioContextRef # 0
                   THEN [inputCtx EXCEPT ![inputAudioContextRef] = "closed"]
                   ELSE inputCtx
    /\ outputCtx' = IF outputAudioContextRef # 0
                    THEN [outputCtx EXCEPT ![outputAudioContextRef] = "closed"]
                    ELSE outputCtx
    /\ isSessionActive' = SetState(FALSE, isSessionActive)
    /\ nextStartTimeRef' = 0
    /\ sourceState' = StopSources(sourceState, sourcesRef)
    /\ sourcesRef' = {}
    /\ playLog' = LogReset(playLog)
    /\ UNCHANGED <<inputAudioContextRef, outputAudioContextRef>>

\* The variables stopSession leaves alone.
stopSessionFrame ==
    UNCHANGED <<mounted, transcription, currentTurn, startPc, closureTurn,
                clock, nMsgs, message, decoding>>

\* stopSession has run and startSession has not run since: the output context
\* the component holds is closed (startSession installs a fresh one).
StoppedSinceStart ==
    outputAudioContextRef # 0 /\ outputCtx[outputAudioContextRef] = "closed"

\* Click on "Start Session": startSession up to await getUserMedia.
StartSession ==
    /\ mounted
    /\ ~isSessionActive
    /\ \E a \in SessionIds :
        /\ startPc[a] = "unused"
        /\ \A b \in SessionIds : b < a => startPc[b] # "unused"
        /\ isSessionActive' = TRUE
        /\ transcription' = <<>>
        /\ currentTurn' = EmptyTurn
        /\ closureTurn' = [closureTurn EXCEPT ![a] = currentTurn]
        /\ inputAudioContextRef' = a
        /\ outputAudioContextRef' = a
        /\ inputCtx' = [inputCtx EXCEPT ![a] = "running"]
        /\ outputCtx' = [outputCtx EXCEPT ![a] = "running"]
        /\ startPc' = [startPc EXCEPT ![a] = "getUserMedia"]
    /\ UNCHANGED <<mounted, sessionPromiseRef, mediaStreamRef, scriptProcessorRef,
                   nextStartTimeRef, sourcesRef, clock, micStream, scriptProc,
                   liveSession, closeQueued, nMsgs, message, decoding,
                   sourceState, playLog, liveAlert>>
    /\ liveFrame

\* getUserMedia resolves: the stream is kept and ai.live.connect is called.
GetUserMediaResolved(a) ==
    /\ startPc[a] = "getUserMedia"
    /\ startPc' = [startPc EXCEPT ![a] = "connected"]
    /\ micStream' = [micStream EXCEPT ![a] = "live"]
    /\ mediaStreamRef' = a
    /\ liveSession' = [liveSession EXCEPT ![a] = "connecting"]
    /\ sessionPromiseRef' = a
    /\ UNCHANGED <<mounted, isSessionActive, transcription, currentTurn,
                   inputAudioContextRef, outputAudioContextRef, scriptProcessorRef,
                   nextStartTimeRef, sourcesRef, closureTurn, inputCtx, outputCtx,
                   clock, scriptProc, closeQueued, nMsgs, message, decoding,
                   sourceState, playLog, liveAlert>>
    /\ liveFrame

\* What the catch block of startSession releases.
startSessionCatch(a) ==
    /\ isSessionActive' = SetState(FALSE, isSessionActive)
    /\ liveAlert' = "microphone"
    /\ UNCHANGED <<inputCtx, outputCtx, micStream>>

\* getUserMedia rejects (permission denied): the catch block of startSession.
GetUserMediaRejected(a) ==
    /\ startPc[a] = "getUserMedia"
    /\ startPc' = [startPc EXCEPT ![a] = "failed"]
    /\ startSessionCatch(a)
    /\ UNCHANGED <<mounted, transcription, currentTurn, sessionPromiseRef,
                   inputAudioContextRef, outputAudioContextRef, mediaStreamRef,
                   scriptProcessorRef, nextStartTimeRef, sourcesRef, closureTurn,
                   clock, scriptProc, liveSession, closeQueued, nMsgs, message,
                   decoding, sourceState, playLog>>
    /\ liveFrame

\* The connection opens: the onopen callback runs, then the connect promise
\* resolves and a close queued on it by stopSession runs.
OnOpen(a) ==
    /\ liveSession[a] = "connecting"
    /\ scriptProcessorRef' = a
    /\ scriptProc' = [scriptProc EXCEPT ![a] = "connected"]
    /\ liveSession' = [liveSession EXCEPT ![a] =
                          IF closeQueued[a] THEN "closing" ELSE "open"]
    /\ closeQueued' = [closeQueued EXCEPT ![a] = FALSE]
    /\ UNCHANGED <<mounted, isSessionActive, transcription, currentTurn,
                   sessionPromiseRef, inputAudioContextRef, outputAudioContextRef,
                   mediaStreamRef, nextStartTimeRef, sourcesRef, startPc,
                   closureTurn, inputCtx, outputCtx, clock, micStream, nMsgs,
                   message, decoding, sourceState, playLog, liveAlert>>
    /\ liveFrame

\* Click on "Stop Session".
StopSessionClick ==
    /\ mounted
    /\ isSessionActive
    /\ stopSession(liveSession)
    /\ stopSessionFrame
    /\ UNCHANGED liveAlert
    /\ liveFrame

\* The onerror callback of session a: the connection is lost.
OnError(a) ==
    /\ liveSession[a] \in {"connecting", "open"}
    /\ liveAlert' = "session"
    /\ stopSession([liveSession EXCEPT ![a] = "closing"])
    /\ stopSessionFrame
    /\ liveFrame

\* The onclose callback of session a: after the client's close(), after an
\* error, or because the server closed the connection.
OnClose(a) ==
    /\ liveSession[a] \in {"open", "closing"}
    /\ stopSession([liveSession EXCEPT ![a] = "closed"])
    /\ stopSessionFrame
    /\ UNCHANGED liveAlert
    /\ liveFrame

\* The cleanup of the unmount effect.
Unmount ==
    /\ mounted
    /\ mounted' = FALSE
    /\ stopSession(liveSession)
    /\ UNCHANGED <<transcription, currentTurn, startPc, closureTurn, clock,
                   nMsgs, message, decoding, liveAlert>>
    /\ liveFrame

\* The turn onmessage appends on turnComplete: `currentTurn` as the callback's
\* closure holds it, the value of the render in which startSession was called.
turnAppended(a) == closureTurn[a]

\* The first `start` entry of the log for chunk c.
StartEntry(c) ==
    playLog[CHOOSE i \in 1..Len(playLog) :
                playLog[i].kind = "start" /\ playLog[i].id = c]

\* onmessage of session a, up to the await of decodeAudioData (a message with
\* no audio part runs to its end).
OnMessage(a, m) ==
    /\ liveSession[a] = "open"
    /\ nMsgs < MaxMsgs
    /\ nMsgs' = nMsgs + 1
    /\ message' = m
    /\ LET accumulated == [user |-> currentTurn.user \o m.inT,
                           model |-> currentTurn.model \o m.outT]
       IN  /\ currentTurn' = SetState(IF m.turnComplete THEN EmptyTurn
                                      ELSE accumulated, currentTurn)
           /\ transcription' = SetState(IF m.turnComplete
                                        THEN Append(transcription, turnAppended(a))
                                        ELSE transcription, transcription)
    /\ IF m.audio > 0 /\ outputAudioContextRef # 0
       THEN /\ nextStartTimeRef' = Max(nextStartTimeRef, clock[outputAudioContextRef])
            /\ decoding' = decoding \cup {[id |-> nMsgs + 1, dur |-> m.audio,
                                           interrupted |-> m.interrupted]}
            /\ UNCHANGED <<sourcesRef, sourceState, playLog>>
       ELSE IF m.interrupted
       THEN /\ sourceState' = StopSources(sourceState, sourcesRef)
            /\ sourcesRef' = {}
            /\ nextStartTimeRef' = 0
            /\ playLog' = LogReset(playLog)
            /\ UNCHANGED decoding
       ELSE UNCHANGED <<nextStartTimeRef, decoding, sourcesRef, sourceState, playLog>>
    /\ UNCHANGED <<mounted, isSessionActive, sessionPromiseRef, inputAudioContextRef,
                   outputAudioContextRef, mediaStreamRef, scriptProcessorRef,
                   startPc, closureTurn, inputCtx, outputCtx, clock, micStream,
                   scriptProc, liveSession, closeQueued, liveAlert>>
    /\ liveFrame

\* decodeAudioData resolves for the suspended handler d: the rest of onmessage.
DecodeResolved(d) ==
    /\ d \in decoding
    /\ decoding' = decoding \ {d}
    /\ LET log1 == Append(playLog,
                      [kind |-> "start", id |-> d.id, at |-> nextStartTimeRef,
                       now |-> clock[outputAudioContextRef], dur |-> d.dur,
                       ctx |-> outputAudioContextRef])
           state1 == [sourceState EXCEPT ![d.id] = "scheduled"]
           set1 == sourcesRef \cup {d.id}
       IN  IF d.interrupted
           THEN /\ sourceState' = StopSources(state1, set1)
                /\ sourcesRef' = {}
                /\ nextStartTimeRef' = 0
                /\ playLog' = LogReset(log1)
           ELSE /\ sourceState' = state1
                /\ sourcesRef' = set1
                /\ nextStartTimeRef' = nextStartTimeRef + d.dur
                /\ playLog' = log1
    /\ UNCHANGED <<mounted, isSessionActive, transcription, currentTurn,
                   sessionPromiseRef, inputAudioContextRef, outputAudioContextRef,
                   mediaStreamRef, scriptProcessorRef, startPc, closureTurn,
                   inputCtx, outputCtx, clock, micStream, scriptProc, liveSession,
                   closeQueued, nMsgs, message, liveAlert>>
    /\ liveFrame

\* decodeAudioData rejects: the handler ends there with an unhandled rejection.
DecodeRejected(d) ==
    /\ d \in decoding
    /\ decoding' = decoding \ {d}
    /\ UNCHANGED <<mounted, isSessionActive, transcription, currentTurn,
                   sessionPromiseRef, inputAudioContextRef, outputAudioContextRef,
                   mediaStreamRef, scriptProcessorRef, nextStartTimeRef, sourcesRef,
                   startPc, closureTurn, inputCtx, outputCtx, clock, micStream,
                   scriptProc, liveSession, closeQueued, nMsgs, message,
                   sourceState, playLog, liveAlert>>
    /\ liveFrame

\* The 'ended' event of a source that played to its end: the listener removes it.
SourceEnded(c) ==
    /\ sourceState[c] = "scheduled"
    /\ LET e == StartEntry(c)
       IN  /\ outputCtx[e.ctx] = "running"
           /\ clock[e.ctx] >= Max(e.at, e.now) + e.dur
    /\ sourceState' = [sourceState EXCEPT ![c] = "ended"]
    /\ sourcesRef' = sourcesRef \ {c}
    /\ UNCHANGED <<mounted, isSessionActive, transcription, currentTurn,
                   sessionPromiseRef, inputAudioContextRef, outputAudioContextRef,
                   mediaStreamRef, scriptProcessorRef, nextStartTimeRef, startPc,
                   closureTurn, inputCtx, outputCtx, clock, micStream, scriptProc,
                   liveSession, closeQueued, nMsgs, message, decoding, playLog,
                   liveAlert>>
    /\ liveFrame

\* The clock of a running output context advances.
Tick(a) ==
    /\ outputCtx[a] = "running"
    /\ clock[a] < MaxTime
    /\ clock' = [clock EXCEPT ![a] = @ + 1]
    /\ UNCHANGED <<mounted, isSessionActive, transcription, currentTurn,
                   sessionPromiseRef, inputAudioContextRef, outputAudioContextRef,
                   mediaStreamRef, scriptProcessorRef, nextStartTimeRef, sourcesRef,
                   startPc, closureTurn, inputCtx, outputCtx, micStream, scriptProc,
                   liveSession, closeQueued, nMsgs, message, decoding, sourceState,
                   playLog, liveAlert>>
    /\ liveFrame

\* ------------------------------------------- LiveConversation: microphone

MicInit ==
    /\ audioEvents = [a \in SessionIds |-> FALSE]
    /\ realtimeInput = {}

\* The script processor created by onopen of session a is connected to a
\* running input context: it is handed blocks of captured audio.
Capturing(a) == scriptProc[a] = "connected" /\ inputCtx[a] = "running"

\* The audio thread has a block for processor a: an audioprocess event is
\* queued for the main thread.
AudioBlockReady(a) ==
    /\ Capturing(a)
    /\ ~audioEvents[a]
    /\ audioEvents' = [audioEvents EXCEPT ![a] = TRUE]
    /\ UNCHANGED realtimeInput
    /\ micFrame

\* The session onaudioprocess sends to: the one sessionPromiseRef holds when
\* the callback runs.
sendTarget(a) == sessionPromiseRef

\* The queued event of processor a is dispatched: onaudioprocess.  With no
\* session in sessionPromiseRef nothing is sent.  The send is a then-callback
\* of the session promise, so it runs after a close() registered before it.
onaudioprocess(a) ==
    /\ audioEvents[a]
    /\ audioEvents' = [audioEvents EXCEPT ![a] = FALSE]
    /\ IF sessionPromiseRef # 0
       THEN LET to == sendTarget(a)
            IN  realtimeInput' = realtimeInput \cup
                    {[proc |-> a, to |-> to,
                      closeInvoked |-> liveSession[to] \in {"closing", "closed"}
                                           \/ closeQueued[to],
                      stopped |-> StoppedSinceStart]}
       ELSE UNCHANGED realtimeInput
    /\ micFrame

\* ======================================================= AudioTranscriber
RecorderIds == 1..MaxRecordings

\* What the vendor may answer to a transcription request (response.text).
VendorTexts == {"", "hello"}

TranscribeErrorText == "Error: Could not transcribe the audio."

\* React drops a state update of a component that is no longer mounted.
TrSetState(new, old) == IF trMounted THEN new ELSE old

TranscriberInit ==
    /\ trMounted = TRUE
    /\ isRecording = FALSE
    /\ trIsLoading = FALSE
    /\ trTranscription = ""
    /\ mediaRecorderRef = 0
    /\ audioChunksRef = <<>>
    /\ recorder = [r \in RecorderIds |-> "none"]
    /\ recStream = [r \in RecorderIds |-> "none"]
    /\ stopPc = [r \in RecorderIds |-> "idle"]
    /\ trAlert = "none"

\* handleStartRecording up to await getUserMedia.
handleStartRecording ==
    /\ trTranscription' = ""
    /\ \E r \in RecorderIds :
        /\ recorder[r] = "none"
        /\ \A q \in RecorderIds : q < r => recorder[q] # "none"
        /\ recorder' = [recorder EXCEPT ![r] = "requested"]
    /\ UNCHANGED <<trMounted, isRecording, trIsLoading, mediaRecorderRef,
                   audioChunksRef, recStream, stopPc, trAlert>>

\* mediaRecorderRef.current?.stop(): the recorder stops recording; its
\* dataavailable and stop events follow.  stop() on a recorder that is not
\* recording throws and changes nothing.
stopRecorder ==
    /\ recorder' = IF mediaRecorderRef # 0 /\ recorder[mediaRecorderRef] = "recording"
                   THEN [recorder EXCEPT ![mediaRecorderRef] = "stopping"]
                   ELSE recorder
    /\ UNCHANGED <<trMounted, isRecording, trIsLoading, trTranscription,
                   mediaRecorderRef, audioChunksRef, recStream, stopPc, trAlert>>

\* Click on the record button (disabled while isLoading): toggleRecording.
ToggleRecording ==
    /\ trMounted
    /\ ~trIsLoading
    /\ IF isRecording THEN stopRecorder ELSE handleStartRecording
    /\ trFrame

\* getUserMedia resolves: the rest of handleStartRecording.
TrGetUserMediaResolved(r) ==
    /\ recorder[r] = "requested"
    /\ recStream' = [recStream EXCEPT ![r] = "live"]
    /\ mediaRecorderRef' = r
    /\ audioChunksRef' = <<>>
    /\ recorder' = [recorder EXCEPT ![r] = "recording"]
    /\ isRecording' = TrSetState(TRUE, isRecording)
    /\ UNCHANGED <<trMounted, trIsLoading, trTranscription, stopPc, trAlert>>
    /\ trFrame

\* getUserMedia rejects: the catch block of handleStartRecording.
TrGetUserMediaRejected(r) ==
    /\ recorder[r] = "requested"
    /\ recorder' = [recorder EXCEPT ![r] = "denied"]
    /\ trAlert' = "microphone"
    /\ UNCHANGED <<trMounted, isRecording, trIsLoading, trTranscription,
                   mediaRecorderRef, audioChunksRef, recStream, stopPc>>
    /\ trFrame

\* The events of a stopped recorder: ondataavailable pushes the recording,
\* onstop runs handleStopRecording up to await fileToBase64.
RecorderStopped(r) ==
    /\ recorder[r] = "stopping"
    /\ recorder' = [recorder EXCEPT ![r] = "inactive"]
    /\ audioChunksRef' = Append(audioChunksRef, r)
    /\ isRecording' = TrSetState(FALSE, isRecording)
    /\ trIsLoading' = TrSetState(TRUE, trIsLoading)
    /\ stopPc' = [stopPc EXCEPT ![r] = "fileToBase64"]
    /\ UNCHANGED <<trMounted, trTranscription, mediaRecorderRef, recStream, trAlert>>
    /\ trFrame

\* fileToBase64 resolves: handleStopRecording calls generateContent.
TrEncoded(r) ==
    /\ stopPc[r] = "fileToBase64"
    /\ stopPc' = [stopPc EXCEPT ![r] = "generateContent"]
    /\ UNCHANGED <<trMounted, isRecording, trIsLoading, trTranscription,
                   mediaRecorderRef, audioChunksRef, recorder, recStream, trAlert>>
    /\ trFrame

\* The finally block of handleStopRecording: the tracks of the recorder the
\* ref holds now are stopped.
handleStopRecordingFinally(r) ==
    /\ trIsLoading' = TrSetState(FALSE, trIsLoading)
    /\ audioChunksRef' = <<>>
    /\ recStream' = IF mediaRecorderRef # 0
                    THEN [recStream EXCEPT ![mediaRecorderRef] = "stopped"]
                    ELSE recStream
    /\ stopPc' = [stopPc EXCEPT ![r] = "done"]

\* generateContent resolves with the text t: setTranscription, then finally.
TrTranscribed(r, t) ==
    /\ stopPc[r] = "generateContent"
    /\ trTranscription' = TrSetState(t, trTranscription)
    /\ handleStopRecordingFinally(r)
    /\ UNCHANGED <<trMounted, isRecording, mediaRecorderRef, recorder, trAlert>>
    /\ trFrame

\* fileToBase64 or generateContent rejects: catch, then finally.
TrTranscribeFailed(r) ==
    /\ stopPc[r] \in {"fileToBase64", "generateContent"}
    /\ trAlert' = "transcribe"
    /\ trTranscription' = TrSetState(TranscribeErrorText, trTranscription)
    /\ handleStopRecordingFinally(r)
    /\ UNCHANGED <<trMounted, isRecording, mediaRecorderRef, recorder>>
    /\ trFrame

\* The component unmounts: AudioTranscriber registers no cleanup.
TrUnmount ==
    /\ trMounted
    /\ trMounted' = FALSE
    /\ UNCHANGED <<isRecording, trIsLoading, trTranscription, mediaRecorderRef,
                   audioChunksRef, recorder, recStream, stopPc, trAlert>>
    /\ trFrame

\* ======================================================= request handlers
\* The handlers that raise a loading flag, by the name of their function:
\*   handleSendMessage    ChatPlayground    src/App.tsx 151-233
\*   generateImages       ImageGenerator    src/unnamed/part_001 66-94
\*   processImage         ImageManipulator  src/unnamed/part_001 158-205
\*   handleGenerate       VideoGenerator    src/unnamed/part_000 60-114
\*   analyzeVideo         VideoAnalyzer     src/unnamed/part_000 208-240
\*   handleStopRecording  AudioTranscriber  src/unnamed/part_001 519-554
\*   handleSynthesize     TextToSpeech      src/unnamed/part_001 590-626
\* and playTTS of ChatPlayground (src/App.tsx 235-264), which calls the vendor
\* the same way but has no loading flag.
\* Each component keeps its own state and the handlers share none, so one run
\* is followed at a time.
Handlers == {"handleSendMessage", "generateImages", "processImage",
             "handleGenerate", "analyzeVideo", "handleStopRecording",
             "handleSynthesize", "playTTS"}

\* The handlers whose component has an isLoading state.
LoadingHandlers == Handlers \ {"playTTS"}

\* The awaited calls of a handler's try block, in source order.  kind: a
\* request to the vendor, a local helper, or a timer.  next: the calls that may
\* follow when this one resolves (which one depends on the answer); 0 stands
\* for leaving the try block normally, -1 for a throw statement of the block.
Steps(h) ==
    CASE h = "handleSendMessage" ->
           << [call |-> "generateContentStream", kind |-> "vendor", next |-> {2}],
              [call |-> "stream.next", kind |-> "vendor", next |-> {2, 0}] >>
      [] h = "generateImages" ->
           << [call |-> "generateImages", kind |-> "vendor", next |-> {0}] >>
      [] h = "processImage" ->
           << [call |-> "fileToBase64", kind |-> "local", next |-> {2}],
              [call |-> "generateContent", kind |-> "vendor", next |-> {0, -1}] >>
      [] h = "handleGenerate" ->
           << [call |-> "fileToBase64", kind |-> "local", next |-> {2}],
              [call |-> "generateVideos", kind |-> "vendor", next |-> {3, 5, -1}],
              [call |-> "setTimeout", kind |-> "timer", next |-> {4}],
              [call |-> "getVideosOperation", kind |-> "vendor", next |-> {3, 5, -1}],
              [call |-> "fetch", kind |-> "vendor", next |-> {6}],
              [call |-> "blob", kind |-> "local", next |-> {0}] >>
      [] h = "analyzeVideo" ->
           << [call |-> "extractFrames", kind |-> "local", next |-> {2, -1}],
              [call |-> "generateContent", kind |-> "vendor", next |-> {0}] >>
      [] h = "handleStopRecording" ->
           << [call |-> "fileToBase64", kind |-> "local", next |-> {2}],
              [call |-> "generateContent", kind |-> "vendor", next |-> {0}] >>
      [] h \in {"handleSynthesize", "playTTS"} ->
           << [call |-> "generateContent", kind |-> "vendor", next |-> {2, 0}],
              [call |-> "decodeAudioData", kind |-> "local", next |-> {0}] >>

\* The first awaited call of a run: handleGenerate encodes the image only when
\* one was uploaded.
Entry(h) == IF h = "handleGenerate" THEN {1, 2} ELSE {1}

\* How the catch block of a handler shows the failure: the chat sets the
\* inline error text, every other handler calls alert().
Surface(h) == IF h = "handleSendMessage" THEN "inline" ELSE "alert"

\* What the input guard of a handler shows when it refuses to run:
\* handleSendMessage and handleStopRecording return silently, the others
\* alert; playTTS has no guard.
GuardSurface(h) ==
    IF h \in {"handleSendMessage", "handleStopRecording"} THEN "none" ELSE "alert"

HandlerInit ==
    /\ running = "none"
    /\ hpc = 0
    /\ isLoading = [h \in Handlers |-> FALSE]
    /\ failed = [h \in Handlers |-> FALSE]
    /\ surfaced = [h \in Handlers |-> "none"]
    /\ escaped = [h \in Handlers |-> FALSE]
    /\ requests = 0
    /\ loops = 0

\* The vendor requests issued by calling step j of handler h.
Issued(h, j) == IF Steps(h)[j].kind = "vendor" THEN 1 ELSE 0

\* The user triggers handler h with acceptable input (its button is disabled,
\* or the handler returns at once, while its isLoading is true): the loading
\* flag is raised and the first call of the try block is made.
HandlerStart(h, j) ==
    /\ running = "none"
    /\ ~isLoading[h]
    /\ j \in Entry(h)
    /\ running' = h
    /\ hpc' = j
    /\ isLoading' = [isLoading EXCEPT ![h] = (h \in LoadingHandlers)]
    /\ failed' = [failed EXCEPT ![h] = FALSE]
    /\ surfaced' = [surfaced EXCEPT ![h] = "none"]
    /\ escaped' = [escaped EXCEPT ![h] = FALSE]
    /\ requests' = Issued(h, j)
    /\ loops' = 0
    /\ hFrame

\* The user triggers handler h with input its guard refuses: it returns before
\* raising the loading flag.
HandlerRefused(h) ==
    /\ h # "playTTS"
    /\ running = "none"
    /\ ~isLoading[h]
    /\ failed' = [failed EXCEPT ![h] = FALSE]
    /\ surfaced' = [surfaced EXCEPT ![h] = GuardSurface(h)]
    /\ escaped' = [escaped EXCEPT ![h] = FALSE]
    /\ UNCHANGED <<running, hpc, isLoading, requests, loops>>
    /\ hFrame

\* The finally block: setIsLoading(false); the handler returns.
handlerFinally(h) ==
    /\ isLoading' = [isLoading EXCEPT ![h] = FALSE]
    /\ running' = "none"

\* A catch block with no finally block after it: the loading flag stays up.
handlerCatchNoFinally(h) ==
    /\ failed' = [failed EXCEPT ![h] = TRUE]
    /\ surfaced' = [surfaced EXCEPT ![h] = Surface(h)]
    /\ running' = "none"
    /\ UNCHANGED <<hpc, isLoading, escaped, requests, loops>>

\* A catch block that makes the failed call again instead of returning.
handlerCatchRetry(h) ==
    /\ failed' = [failed EXCEPT ![h] = TRUE]
    /\ surfaced' = [surfaced EXCEPT ![h] = Surface(h)]
    /\ requests' = requests + Issued(h, hpc)
    /\ UNCHANGED <<running, hpc, isLoading, escaped, loops>>

\* The catch block of handler h, then its finally block: the failure is shown
\* to the user and nothing is called again.
handlerCatch(h) ==
    /\ failed' = [failed EXCEPT ![h] = TRUE]
    /\ surfaced' = [surfaced EXCEPT ![h] = Surface(h)]
    /\ handlerFinally(h)
    /\ UNCHANGED <<hpc, escaped, requests, loops>>

\* The awaited call of the run in flight resolves and the handler goes on to j:
\* the next call, the end of the try block (0) or a throw statement (-1).
StepResolved(h, j) ==
    /\ running = h
    /\ j \in Steps(h)[hpc].next
    /\ IF j = 0
       THEN /\ handlerFinally(h)
            /\ hpc' = 0
            /\ UNCHANGED <<failed, surfaced, escaped, requests, loops>>
       ELSE IF j = -1
       THEN handlerCatch(h)
       ELSE /\ j <= hpc => loops < MaxLoops
            /\ hpc' = j
            /\ loops' = IF j <= hpc THEN loops + 1 ELSE loops
            /\ requests' = requests + Issued(h, j)
            /\ UNCHANGED <<running, isLoading, failed, surfaced, escaped>>
    /\ hFrame

\* The awaited call of the run in flight rejects (a timer cannot).
StepRejected(h) ==
    /\ running = h
    /\ Steps(h)[hpc].kind # "timer"
    /\ handlerCatch(h)
    /\ hFrame

\* ========================================================== extractFrames
RECURSIVE Pow2(_)
Pow2(n) == IF n = 0 THEN 1 ELSE 2 * Pow2(n - 1)

\* The largest j with 2^j <= num/den (num >= den > 0 or num/den < 1 gives 0).
RECURSIVE FloorLog2(_, _)
FloorLog2(num, den) == IF num < 2 * den THEN 0 ELSE 1 + FloorLog2(num, 2 * den)

\* The number nearest to num/den that has MantissaBits significant bits, ties
\* to the even significand: the rounding of every arithmetic result.
RoundNearestEven(num, den) ==
    LET j == FloorLog2(num, den)
        s == IF j - MantissaBits + 1 > 0 THEN Pow2(j - MantissaBits + 1) ELSE 1
        q == num \div (den * s)
        r == num - q * den * s
    IN  IF 2 * r > den * s \/ (2 * r = den * s /\ q % 2 = 1)
        THEN (q + 1) * s
        ELSE q * s

\* One second, and the video durations tried (quarter seconds: each of them,
\* and each product with a frame rate, is exact in MantissaBits bits).
Second == Pow2(FracBits)
Durations == {q * (Second \div 4) : q \in 0..MaxQuarters}

\* videoElement.duration of a video whose duration is unknown: NaN, for which
\* every comparison is false.
NaN == -1
LessEq(a, b) == a # NaN /\ b # NaN /\ a <= b

\* 1 / fps
FrameStep(fps) == RoundNearestEven(Second, fps)

ExtractInit ==
    /\ efPc = "idle"
    /\ efFps = 1
    /\ efDuration = 0
    /\ efContext = TRUE
    /\ efCurrentTime = 0
    /\ efVideoTime = 0
    /\ efFrames = <<>>
    /\ efSeeks = 0
    /\ efResult = <<>>

\* extractFrames(videoElement, fps): the canvas and its context are created,
\* currentTime is 0 and the first seek (to 0) is requested.
extractFrames(fps, duration, context) ==
    /\ efPc = "idle"
    /\ efPc' = "seeking"
    /\ efFps' = fps
    /\ efDuration' = duration
    /\ efContext' = context
    /\ efCurrentTime' = 0
    /\ efVideoTime' = 0
    /\ efFrames' = <<>>
    /\ efSeeks' = 0
    /\ efResult' = <<>>
    /\ efFrame

\* videoElement.onseeked: the frame at the video's position is drawn and
\* pushed, currentTime += 1 / fps, and either the next seek is requested or the
\* promise is resolved.  With no 2d context the handler returns at once.
OnSeeked ==
    /\ efPc = "seeking"
    /\ efSeeks' = efSeeks + 1
    /\ IF ~efContext
       THEN /\ efPc' = "stuck"
            /\ UNCHANGED <<efCurrentTime, efVideoTime, efFrames, efResult>>
       ELSE LET frames == Append(efFrames, efVideoTime)
                next == RoundNearestEven(efCurrentTime + FrameStep(efFps), 1)
            IN  /\ efFrames' = frames
                /\ efCurrentTime' = next
                /\ IF LessEq(next, efDuration)
                   THEN /\ efVideoTime' = next
                        /\ efPc' = "seeking"
                        /\ UNCHANGED efResult
                   ELSE /\ efResult' = frames
                        /\ efPc' = "resolved"
                        /\ UNCHANGED efVideoTime
    /\ UNCHANGED <<efFps, efDuration, efContext>>
    /\ efFrame

\* The caller has taken the frames; the next analysis may call again.
ExtractReturned ==
    /\ efPc = "resolved"
    /\ efPc' = "idle"
    /\ UNCHANGED <<efFps, efDuration, efContext, efCurrentTime, efVideoTime,
                   efFrames, efSeeks, efResult>>
    /\ efFrame

\* ========================================================= ChatPlayground
\* Texts are sequences of pieces; the input box holds characters.
InputTexts == {<<>>, <<" ">>, <<"h">>, <<" ", "h">>}

\* String.prototype.trim
RECURSIVE TrimStart(_)
TrimStart(t) == IF t # <<>> /\ Head(t) = " " THEN TrimStart(Tail(t)) ELSE t
RECURSIVE TrimEnd(_)
TrimEnd(t) ==
    IF t # <<>> /\ t[Len(t)] = " " THEN TrimEnd(SubSeq(t, 1, Len(t) - 1)) ELSE t
Trim(t) == TrimEnd(TrimStart(t))

\* What a stream chunk exposes: chunk.text is a string or undefined, and the
\* grounding chunks of the first candidate are a list (absent counts as empty).
NoText == "(undefined)"
StreamChunks ==
    [text : {"a", "b", NoText}, sources : {<<>>, <<"s1">>, <<"s2">>}]

\* The string a value becomes when it is appended to a string with +=.
ToText(text) == IF text = NoText THEN <<"undefined">> ELSE <<text>>

\* e.message of a rejection: a text, or "" when there is none.
ErrorMessages == {"", "quota exceeded"}

\* `Error: ${e.message || 'An unknown error occurred.'}`
ErrorText(m) == <<"Error: ", IF m # "" THEN m ELSE "An unknown error occurred.">>

Positions == {"position"}

thinkingBudget == 32768

\* The model name handleSendMessage selects.
SelectedModel ==
    IF useLite THEN "gemini-2.5-flash-lite"
    ELSE IF useThinking THEN "gemini-2.5-pro"
    ELSE "gemini-2.5-flash"

\* A tools array that gets the search tool for either grounding.
ToolsSearchForEither ==
    (IF useSearch \/ useMaps THEN <<"googleSearch">> ELSE <<>>)
        \o (IF useMaps THEN <<"googleMaps">> ELSE <<>>)

\* The tools array.
Tools ==
    (IF useSearch THEN <<"googleSearch">> ELSE <<>>)
        \o (IF useMaps THEN <<"googleMaps">> ELSE <<>>)

\* The keys the config object has been given.
ConfigKeys ==
    (IF useThinking THEN {"thinkingConfig"} ELSE {})
        \cup (IF Len(Tools) > 0 THEN {"tools"} ELSE {})
        \cup (IF useMaps /\ userLocation # "null" THEN {"toolConfig"} ELSE {})

\* requestPayload as built by handleSendMessage: config is attached only when
\* it has a key.
BuildRequestPayload ==
    [model |-> SelectedModel,
     contents |-> input,
     hasConfig |-> ConfigKeys # {},
     configKeys |-> ConfigKeys,
     thinkingBudget |-> IF useThinking THEN thinkingBudget ELSE 0,
     tools |-> IF Len(Tools) > 0 THEN Tools ELSE <<>>,
     latLng |-> IF useMaps /\ userLocation # "null" THEN userLocation ELSE "null"]

NoRequest ==
    [model |-> "none", contents |-> <<>>, hasConfig |-> FALSE, configKeys |-> {},
     thinkingBudget |-> 0, tools |-> <<>>, latLng |-> "null"]

ChatInit ==
    /\ messages = <<>>
    /\ input = <<>>
    /\ chatIsLoading = FALSE
    /\ chatError = <<>>
    /\ useSearch = FALSE
    /\ useMaps = FALSE
    /\ useThinking = FALSE
    /\ useLite = FALSE
    /\ userLocation = "null"
    /\ lookups = 0
    /\ nLookups = 0
    /\ chatPc = "idle"
    /\ requestPayload = NoRequest
    /\ chunks = <<>>
    /\ nSends = 0
    /\ sendOutcome = "none"

\* The user edits the input box (disabled while isLoading).
SetInput(t) ==
    /\ ~chatIsLoading
    /\ input # t
    /\ input' = t
    /\ UNCHANGED <<messages, chatIsLoading, chatError, useSearch, useMaps,
                   useThinking, useLite, userLocation, lookups, nLookups, chatPc,
                   requestPayload, chunks, nSends, sendOutcome>>
    /\ chatFrame

ToggleSearch ==
    /\ useSearch' = ~useSearch
    /\ UNCHANGED <<messages, input, chatIsLoading, chatError, useMaps,
                   useThinking, useLite, userLocation, lookups, nLookups, chatPc,
                   requestPayload, chunks, nSends, sendOutcome>>
    /\ chatFrame

ToggleThinking ==
    /\ useThinking' = ~useThinking
    /\ UNCHANGED <<messages, input, chatIsLoading, chatError, useSearch, useMaps,
                   useLite, userLocation, lookups, nLookups, chatPc,
                   requestPayload, chunks, nSends, sendOutcome>>
    /\ chatFrame

ToggleLite ==
    /\ useLite' = ~useLite
    /\ UNCHANGED <<messages, input, chatIsLoading, chatError, useSearch, useMaps,
                   useThinking, userLocation, lookups, nLookups, chatPc,
                   requestPayload, chunks, nSends, sendOutcome>>
    /\ chatFrame

\* The Maps Grounding toggle, and the effect that runs after it: switched on,
\* fetchUserLocation asks for the position; switched off, the location is
\* cleared.
ToggleMaps ==
    /\ useMaps \/ nLookups < MaxLookups
    /\ useMaps' = ~useMaps
    /\ IF ~useMaps
       THEN /\ lookups' = lookups + 1
            /\ nLookups' = nLookups + 1
            /\ UNCHANGED userLocation
       ELSE /\ userLocation' = "null"
            /\ UNCHANGED <<lookups, nLookups>>
    /\ UNCHANGED <<messages, input, chatIsLoading, chatError, useSearch,
                   useThinking, useLite, chatPc, requestPayload, chunks, nSends,
                   sendOutcome>>
    /\ chatFrame

\* getCurrentPosition succeeds: the position callback stores the location.
PositionFound(p) ==
    /\ lookups > 0
    /\ lookups' = lookups - 1
    /\ userLocation' = p
    /\ UNCHANGED <<messages, input, chatIsLoading, chatError, useSearch, useMaps,
                   useThinking, useLite, nLookups, chatPc, requestPayload, chunks,
                   nSends, sendOutcome>>
    /\ chatFrame

\* getCurrentPosition fails: the error callback sets the inline error.
PositionFailed ==
    /\ lookups > 0
    /\ lookups' = lookups - 1
    /\ chatError' = <<"Could not get your location. Maps grounding may be less accurate.">>
    /\ UNCHANGED <<messages, input, chatIsLoading, useSearch, useMaps,
                   useThinking, useLite, userLocation, nLookups, chatPc,
                   requestPayload, chunks, nSends, sendOutcome>>
    /\ chatFrame

\* A handler with no guard.
sendRefusedNever == FALSE

\* if (!input.trim() || isLoading) return;
sendRefused == Trim(input) = <<>> \/ chatIsLoading

\* handleSendMessage with a non-blank input and no send loading: the user
\* message and an empty bot message are appended, the input is cleared, the
\* request is built and generateContentStream is called.
handleSendMessage ==
    /\ ~sendRefused
    /\ nSends < MaxSends
    /\ messages' = messages \o
          << [sender |-> "user", text |-> input, sources |-> <<>>],
             [sender |-> "bot", text |-> <<>>, sources |-> <<>>] >>
    /\ input' = <<>>
    /\ chatIsLoading' = TRUE
    /\ chatError' = <<>>
    /\ requestPayload' = BuildRequestPayload
    /\ chatPc' = "generateContentStream"
    /\ chunks' = <<>>
    /\ nSends' = nSends + 1
    /\ sendOutcome' = "accepted"
    /\ UNCHANGED <<useSearch, useMaps, useThinking, useLite, userLocation,
                   lookups, nLookups>>
    /\ chatFrame

\* handleSendMessage with a blank input or while a send is loading: return.
handleSendMessageIgnored ==
    /\ sendRefused
    /\ sendOutcome' = "ignored"
    /\ UNCHANGED <<messages, input, chatIsLoading, chatError, useSearch, useMaps,
                   useThinking, useLite, userLocation, lookups, nLookups, chatPc,
                   requestPayload, chunks, nSends>>
    /\ chatFrame

\* generateContentStream resolves with the stream.
StreamOpened ==
    /\ chatPc = "generateContentStream"
    /\ chatPc' = "streaming"
    /\ UNCHANGED <<messages, input, chatIsLoading, chatError, useSearch, useMaps,
                   useThinking, useLite, userLocation, lookups, nLookups,
                   requestPayload, chunks, nSends, sendOutcome>>
    /\ chatFrame

\* The setMessages updater of the stream loop: the last message, when it is a
\* bot message, gets the chunk text appended and, when the chunk has sources,
\* its sources replaced.
appendChunk(prev, c) ==
    IF prev # <<>> /\ prev[Len(prev)].sender = "bot"
    THEN [prev EXCEPT ![Len(prev)] =
            [sender |-> "bot",
             text |-> @.text \o ToText(c.text),
             sources |-> IF Len(c.sources) > 0 THEN c.sources ELSE @.sources]]
    ELSE prev

\* The stream yields a chunk.
StreamChunk(c) ==
    /\ chatPc = "streaming"
    /\ Len(chunks) < MaxChunks
    /\ chunks' = Append(chunks, c)
    /\ messages' = appendChunk(messages, c)
    /\ UNCHANGED <<input, chatIsLoading, chatError, useSearch, useMaps,
                   useThinking, useLite, userLocation, lookups, nLookups, chatPc,
                   requestPayload, nSends, sendOutcome>>
    /\ chatFrame

\* The stream ends: finally.
StreamEnded ==
    /\ chatPc = "streaming"
    /\ chatPc' = "idle"
    /\ chatIsLoading' = FALSE
    /\ UNCHANGED <<messages, input, chatError, useSearch, useMaps, useThinking,
                   useLite, userLocation, lookups, nLookups, requestPayload,
                   chunks, nSends, sendOutcome>>
    /\ chatFrame

\* A catch updater that always appends a message.
showErrorAppend(prev, errorMessage) ==
    Append(prev, [sender |-> "bot", text |-> errorMessage, sources |-> <<>>])

\* A catch updater that keeps the streamed text in front of the error.
showErrorKeepPartial(prev, errorMessage) ==
    IF prev # <<>> /\ prev[Len(prev)].sender = "bot"
    THEN [prev EXCEPT ![Len(prev)].text = @ \o errorMessage]
    ELSE Append(prev, [sender |-> "bot", text |-> errorMessage, sources |-> <<>>])

\* The setMessages updater of the catch block.
showError(prev, errorMessage) ==
    IF prev # <<>> /\ prev[Len(prev)].sender = "bot"
    THEN [prev EXCEPT ![Len(prev)].text = errorMessage]
    ELSE Append(prev, [sender |-> "bot", text |-> errorMessage, sources |-> <<>>])

\* generateContentStream or the stream rejects with message m: catch, finally.
ChatFailed(m) ==
    /\ chatPc \in {"generateContentStream", "streaming"}
    /\ chatError' = ErrorText(m)
    /\ messages' = showError(messages, ErrorText(m))
    /\ chatIsLoading' = FALSE
    /\ chatPc' = "failed"
    /\ UNCHANGED <<input, useSearch, useMaps, useThinking, useLite, userLocation,
                   lookups, nLookups, requestPayload, chunks, nSends, sendOutcome>>
    /\ chatFrame

\* ------------------------------------------ ChatPlayground: stream updater
\* The updater of the stream loop as a function of the list it is given.  The
\* array is copied ([...prev]) but its elements are the message objects of
\* prev, so what the updater assigns to lastMessage it assigns to the last
\* object of prev.

PrevMessages ==
    [sender : {"user", "bot"}, text : {<<>>, <<"a">>}, sources : {<<>>, <<"s1">>}]

RECURSIVE SeqsUpTo(_, _)
SeqsUpTo(S, n) ==
    IF n = 0 THEN {<<>>}
    ELSE LET shorter == SeqsUpTo(S, n - 1)
         IN  shorter \cup {Append(q, x) : q \in shorter, x \in S}

PrevLists == SeqsUpTo(PrevMessages, MaxPrev)

UpdaterInit ==
    /\ updPc = "idle"
    /\ updChunk = [text |-> NoText, sources |-> <<>>]
    /\ updGiven = <<>>
    /\ updPrev = <<>>
    /\ updOnce = <<>>
    /\ updTwice = <<>>

\* React holds a state `prev` and an updater closed over chunk c.
UpdaterQueued(prev, c) ==
    /\ updPc = "idle"
    /\ updPc' = "ready"
    /\ updChunk' = c
    /\ updGiven' = prev
    /\ updPrev' = prev
    /\ updOnce' = <<>>
    /\ updTwice' = <<>>
    /\ updFrame

\* The objects of prev after a call of the updater: lastMessage is the last
\* object of prev, and `lastMessage.text += chunkText` and `lastMessage.sources
\* = chunkSources` write into it.
prevAfterUpdater(prev, c) == appendChunk(prev, c)

\* The updater is called on prev: it returns a new array of the same objects.
UpdaterCalled ==
    /\ updPc \in {"ready", "once"}
    /\ updPrev' = prevAfterUpdater(updPrev, updChunk)
    /\ IF updPc = "ready"
       THEN /\ updOnce' = updPrev'
            /\ updPc' = "once"
            /\ UNCHANGED updTwice
       ELSE /\ updTwice' = updPrev'
            /\ updPc' = "twice"
            /\ UNCHANGED updOnce
    /\ UNCHANGED <<updChunk, updGiven>>
    /\ updFrame

\* The results have been compared; another list and chunk may be tried.
UpdaterDone ==
    /\ updPc = "twice"
    /\ updPc' = "idle"
    /\ UNCHANGED <<updChunk, updGiven, updPrev, updOnce, updTwice>>
    /\ updFrame

\* ========================================================= VideoGenerator
Prompts == {<<>>, <<"p">>}
AspectRatios == {"16:9", "9:16"}

\* What the vendor reports of the operation: done or not, and when done
\* whether the response has a video uri.
Operations == {[done |-> FALSE, link |-> FALSE],
               [done |-> TRUE, link |-> TRUE],
               [done |-> TRUE, link |-> FALSE]}

\* error.message of a failed call.
\* Error messages, as sequences of pieces of text; <<>> is an error without a
\* message.
keyPhrase == "Requested entity was not found"
NoLinkError == <<"Video generation completed but no download link was found.">>
VideoErrors == {<<keyPhrase>>, <<"404: ", keyPhrase, " (models/veo)">>,
                <<"quota exceeded">>, <<>>}

\* error.message?.includes(phrase): false for an error without a message.
Includes(m, phrase) == \E i \in 1..Len(m) : m[i] = phrase

\* setTimeout(resolve, 10000)
pollDelay == 10000

VideoInit ==
    /\ vgPrompt = <<"p">>
    /\ vgImage = FALSE
    /\ aspectRatio = "16:9"
    /\ isKeyReady = FALSE
    /\ keyChecked = FALSE
    /\ vgIsLoading = FALSE
    /\ videoUrl = 0
    /\ vgPc = "idle"
    /\ operation = [done |-> FALSE, link |-> FALSE]
    /\ vgTimer = 0
    /\ vgElapsed = 0
    /\ nPolls = 0
    /\ nRuns = 0
    /\ vgFetched = FALSE
    /\ imagePayload = FALSE
    /\ vgAlert = "none"
    /\ selectedKey = FALSE
    /\ vgError = <<>>

\* The checkKey effect: window.aistudio.hasSelectedApiKey() answers.
CheckKey(has) ==
    /\ ~keyChecked
    /\ keyChecked' = TRUE
    /\ isKeyReady' = (isKeyReady \/ has)
    /\ selectedKey' = (selectedKey \/ has)
    /\ UNCHANGED <<vgPrompt, vgImage, aspectRatio, vgIsLoading, videoUrl, vgPc,
                   operation, vgTimer, vgElapsed, nPolls, nRuns, vgFetched, imagePayload, vgAlert>>
    /\ keyFrame

\* ApiKeySelector.handleSelectKey: openSelectKey() resolves after the user
\* chose a key in the dialog, and onKeySelected runs.
KeySelected ==
    /\ ~isKeyReady
    /\ isKeyReady' = TRUE
    /\ selectedKey' = TRUE
    /\ UNCHANGED <<vgPrompt, vgImage, aspectRatio, keyChecked, vgIsLoading,
                   videoUrl, vgPc, operation, vgTimer, vgElapsed, nPolls, nRuns,
                   vgFetched, imagePayload, vgAlert>>
    /\ keyFrame

\* ApiKeySelector.handleSelectKey: openSelectKey() resolves after the user
\* closed the dialog without choosing a key; the promise carries no value and
\* onKeySelected runs as after a choice.
KeyDialogDismissed ==
    /\ ~isKeyReady
    /\ isKeyReady' = TRUE
    /\ UNCHANGED <<vgPrompt, vgImage, aspectRatio, keyChecked, vgIsLoading,
                   videoUrl, vgPc, operation, vgTimer, vgElapsed, nPolls, nRuns,
                   vgFetched, imagePayload, vgAlert, selectedKey>>
    /\ keyFrame

\* ApiKeySelector.handleSelectKey: openSelectKey() rejects; the catch block
\* alerts and onKeySelected does not run.
KeyDialogFailed ==
    /\ ~isKeyReady
    /\ vgAlert # "dialog"
    /\ vgAlert' = "dialog"
    /\ UNCHANGED <<vgPrompt, vgImage, aspectRatio, isKeyReady, keyChecked,
                   vgIsLoading, videoUrl, vgPc, operation, vgTimer, vgElapsed,
                   nPolls, nRuns, vgFetched, imagePayload, selectedKey>>
    /\ keyFrame

\* The user edits the form (shown when the key is ready).
EditForm(p, i, a) ==
    /\ isKeyReady
    /\ <<p, i, a>> # <<vgPrompt, vgImage, aspectRatio>>
    /\ vgPrompt' = p
    /\ vgImage' = i
    /\ aspectRatio' = a
    /\ UNCHANGED <<isKeyReady, keyChecked, vgIsLoading, videoUrl, vgPc, operation,
                   vgTimer, vgElapsed, nPolls, nRuns, vgFetched, imagePayload, vgAlert>>
    /\ vgFrame

\* handleGenerate with neither prompt nor image: alert and return.
handleGenerateRefused ==
    /\ isKeyReady
    /\ ~vgIsLoading
    /\ Trim(vgPrompt) = <<>> /\ ~vgImage
    /\ vgAlert' = "input"
    /\ UNCHANGED <<vgPrompt, vgImage, aspectRatio, isKeyReady, keyChecked,
                   vgIsLoading, videoUrl, vgPc, operation, vgTimer, vgElapsed,
                   nPolls, nRuns, vgFetched, imagePayload>>
    /\ vgFrame

\* handleGenerate (the button is disabled while isLoading): the flag is raised,
\* videoUrl is cleared and the first call of the try block is made.
handleGenerate ==
    /\ isKeyReady
    /\ ~vgIsLoading
    /\ ~(Trim(vgPrompt) = <<>> /\ ~vgImage)
    /\ nRuns < MaxRuns
    /\ vgIsLoading' = TRUE
    /\ videoUrl' = 0
    /\ vgPc' = IF vgImage THEN "fileToBase64" ELSE "generateVideos"
    /\ nRuns' = nRuns + 1
    /\ nPolls' = 0
    /\ vgFetched' = FALSE
    /\ imagePayload' = FALSE
    /\ vgAlert' = "none"
    /\ operation' = [done |-> FALSE, link |-> FALSE]
    /\ UNCHANGED <<vgPrompt, vgImage, aspectRatio, isKeyReady, keyChecked,
                   vgTimer, vgElapsed>>
    /\ vgFrame

\* fileToBase64 resolves: generateVideos is called.
ImageEncoded ==
    /\ vgPc = "fileToBase64"
    /\ vgPc' = "generateVideos"
    /\ imagePayload' = TRUE
    /\ UNCHANGED <<vgPrompt, vgImage, aspectRatio, isKeyReady, keyChecked,
                   vgIsLoading, videoUrl, operation, vgTimer, vgElapsed, nPolls,
                   nRuns, vgFetched, vgAlert>>
    /\ vgFrame

\* A catch block that takes every failure for a key failure.
isKeyErrorAlways(m) == TRUE

\* The test of the catch block.
isKeyError(m) == Includes(m, keyPhrase)

\* catch and finally of handleGenerate for an error with message m.
handleGenerateCatch(m) ==
    /\ vgError' = m
    /\ vgAlert' = IF isKeyError(m) THEN "key" ELSE "failed"
    /\ isKeyReady' = IF isKeyError(m) THEN FALSE ELSE isKeyReady
    /\ vgIsLoading' = FALSE
    /\ vgPc' = "idle"

\* A wait that does not wait.
startWaitNoDelay == vgTimer' = 0

\* await new Promise(resolve => setTimeout(resolve, 10000))
startWait == vgTimer' = pollDelay

\* The code after an answer op of generateVideos or getVideosOperation: the
\* loop test, then the download or the throw.
afterOperation(op) ==
    /\ operation' = op
    /\ vgElapsed' = 0
    /\ IF ~op.done
       THEN /\ vgPc' = "setTimeout"
            /\ startWait
            /\ UNCHANGED <<isKeyReady, vgIsLoading, vgAlert, vgError>>
       ELSE IF op.link
       THEN /\ vgPc' = "fetch"
            /\ UNCHANGED <<isKeyReady, vgIsLoading, vgAlert, vgTimer, vgError>>
       ELSE /\ handleGenerateCatch(NoLinkError)
            /\ UNCHANGED vgTimer

\* generateVideos resolves with the operation.
VideosRequested(op) ==
    /\ vgPc = "generateVideos"
    /\ ~op.done => nPolls < MaxPolls
    /\ afterOperation(op)
    /\ UNCHANGED <<vgPrompt, vgImage, aspectRatio, keyChecked, videoUrl, nPolls,
                   nRuns, vgFetched, imagePayload>>
    /\ catchFrame

\* Time passes while the timer runs.
TimePasses ==
    /\ vgPc = "setTimeout"
    /\ vgTimer > 0
    /\ vgTimer' = Max(0, vgTimer - TickMs)
    /\ vgElapsed' = vgElapsed + (vgTimer - vgTimer')
    /\ UNCHANGED <<vgPrompt, vgImage, aspectRatio, isKeyReady, keyChecked,
                   vgIsLoading, videoUrl, vgPc, operation, nPolls, nRuns,
                   vgFetched, imagePayload, vgAlert>>
    /\ vgFrame

\* The timer fires: getVideosOperation is called.
TimerFired ==
    /\ vgPc = "setTimeout"
    /\ vgTimer = 0
    /\ vgPc' = "getVideosOperation"
    /\ nPolls' = nPolls + 1
    /\ UNCHANGED <<vgPrompt, vgImage, aspectRatio, isKeyReady, keyChecked,
                   vgIsLoading, videoUrl, operation, vgTimer, vgElapsed, nRuns,
                   vgFetched, imagePayload, vgAlert>>
    /\ vgFrame

\* getVideosOperation resolves with the operation.
OperationPolled(op) ==
    /\ vgPc = "getVideosOperation"
    /\ ~op.done => nPolls < MaxPolls
    /\ afterOperation(op)
    /\ UNCHANGED <<vgPrompt, vgImage, aspectRatio, keyChecked, videoUrl, nPolls,
                   nRuns, vgFetched, imagePayload>>
    /\ catchFrame

\* fetch of the download link resolves.
VideoFetched ==
    /\ vgPc = "fetch"
    /\ vgPc' = "blob"
    /\ vgFetched' = TRUE
    /\ UNCHANGED <<vgPrompt, vgImage, aspectRatio, isKeyReady, keyChecked,
                   vgIsLoading, videoUrl, operation, vgTimer, vgElapsed, nPolls,
                   nRuns, imagePayload, vgAlert>>
    /\ vgFrame

\* response.blob() resolves: setVideoUrl(URL.createObjectURL(blob)); finally.
BlobRead ==
    /\ vgPc = "blob"
    /\ videoUrl' = nRuns
    /\ vgIsLoading' = FALSE
    /\ vgPc' = "idle"
    /\ UNCHANGED <<vgPrompt, vgImage, aspectRatio, isKeyReady, keyChecked,
                   operation, vgTimer, vgElapsed, nPolls, nRuns, vgFetched, imagePayload, vgAlert>>
    /\ vgFrame

\* An awaited call of the try block rejects with message m: catch, finally.
VideoCallFailed(m) ==
    /\ vgPc \in {"fileToBase64", "generateVideos", "getVideosOperation", "fetch", "blob"}
    /\ handleGenerateCatch(m)
    /\ UNCHANGED <<vgPrompt, vgImage, aspectRatio, keyChecked, videoUrl, operation,
                   vgTimer, vgElapsed, nPolls, nRuns, vgFetched, imagePayload>>
    /\ catchFrame

\* ===================================================== microphone encoder
\* Samples are floats in [-1, 1]; the model counts them in units of 2^-16, so
\* 65536 is 1.0 and the product with 32768 is half the count.
SampleUnit == 65536
Samples == {-65536, -65535, -32769, -3, -1, 0, 1, 3, 32769, 65535, 65536}

\* int16[i] = inputData[i] * 32768
pcmScale == 32768

\* The integer part of num/den (rounding toward zero).
Truncate(num, den) == IF num >= 0 THEN num \div den ELSE -((-num) \div den)

\* Storing a number into an Int16Array element: the integer part, modulo
\* 2^16, read as a signed 16-bit value.
ToInt16(num, den) ==
    LET m == Truncate(num, den) % 65536
    IN  IF m >= 32768 THEN m - 65536 ELSE m

\* new Uint8Array(int16.buffer): the two bytes of each element, low byte first.
RECURSIVE Bytes(_)
Bytes(a) ==
    IF a = <<>> THEN <<>>
    ELSE <<(Head(a) % 65536) % 256, (Head(a) % 65536) \div 256>> \o Bytes(Tail(a))

Blocks == [1..BlockLen -> Samples]

EncoderInit ==
    /\ inputData = <<>>
    /\ int16 = <<>>
    /\ pcmBlob = [bytes |-> <<>>, mimeType |-> "none"]
    /\ nBlocks = 0
    /\ nBlobs = 0

\* onaudioprocess with the block b: it is converted sample by sample
\* (inputData[i] * 32768 is the sample count over SampleUnit / 32768) and
\* wrapped into a blob for sendRealtimeInput.
OnAudioProcess(b) ==
    /\ nBlocks < MaxBlocks
    /\ inputData' = b
    /\ int16' = [i \in 1..Len(b) |-> ToInt16(b[i], SampleUnit \div pcmScale)]
    /\ pcmBlob' = [bytes |-> Bytes(int16'), mimeType |-> "audio/pcm;rate=16000"]
    /\ nBlocks' = nBlocks + 1
    /\ nBlobs' = nBlobs + 1
    /\ encFrame

\* ========================================================= specifications
\* The messages that carry transcription fields only, and those that carry
\* playback fields only.  onmessage handles the two groups of fields
\* independently: lines 404-413 read and write currentTurn and transcription
\* alone, lines 416-433 the playback refs alone.
TextMessages == {m \in Messages : m.audio = 0 /\ ~m.interrupted}
AudioMessages == {m \in Messages : m.inT = <<>> /\ m.outT = <<>> /\ ~m.turnComplete}

\* The clicks, the unmount, and the callbacks of startSession and of a session.
SessionNext ==
    \/ StartSession
    \/ StopSessionClick
    \/ Unmount
    \/ \E a \in SessionIds : GetUserMediaResolved(a)
    \/ \E a \in SessionIds : GetUserMediaRejected(a)
    \/ \E a \in SessionIds : OnOpen(a)
    \/ \E a \in SessionIds : OnError(a)
    \/ \E a \in SessionIds : OnClose(a)

\* The steps of the audio output.
OutputNext ==
    \/ \E d \in decoding : DecodeResolved(d)
    \/ \E d \in decoding : DecodeRejected(d)
    \/ \E c \in ChunkIds : SourceEnded(c)
    \/ \E a \in SessionIds : Tick(a)

\* LiveConversation with server messages of transcription fields.
TranscriptNext ==
    \/ SessionNext
    \/ \E a \in SessionIds, m \in TextMessages : OnMessage(a, m)

\* LiveConversation with server messages of playback fields.
PlaybackNext ==
    \/ SessionNext
    \/ \E a \in SessionIds, m \in AudioMessages : OnMessage(a, m)
    \/ OutputNext

LiveNext ==
    \/ SessionNext
    \/ \E a \in SessionIds, m \in Messages : OnMessage(a, m)
    \/ OutputNext

TranscriberNext ==
    \/ ToggleRecording
    \/ TrUnmount
    \/ \E r \in RecorderIds : TrGetUserMediaResolved(r)
    \/ \E r \in RecorderIds : TrGetUserMediaRejected(r)
    \/ \E r \in RecorderIds : RecorderStopped(r)
    \/ \E r \in RecorderIds : TrEncoded(r)
    \/ \E r \in RecorderIds, t \in VendorTexts : TrTranscribed(r, t)
    \/ \E r \in RecorderIds : TrTranscribeFailed(r)

HandlerNext ==
    \/ \E h \in Handlers : \E j \in 1..Len(Steps(h)) : HandlerStart(h, j)
    \/ \E h \in Handlers : HandlerRefused(h)
    \/ \E h \in Handlers : \E j \in -1..Len(Steps(h)) : StepResolved(h, j)
    \/ \E h \in Handlers : StepRejected(h)

ExtractNext ==
    \/ \E fps \in 1..MaxFps, d \in Durations, c \in BOOLEAN : extractFrames(fps, d, c)
    \/ OnSeeked
    \/ ExtractReturned

\* The durations of the videos analyzeVideo is tried on.
AnalyzeDurations == Durations \cup {k * Second : k \in 0..MaxSeconds} \cup {NaN}

\* extractFrames as analyzeVideo calls it (1 frame per second), on any video.
AnalyzeNext ==
    \/ \E d \in AnalyzeDurations, c \in BOOLEAN : extractFrames(1, d, c)
    \/ OnSeeked
    \/ ExtractReturned

\* The stream updater called once and twice on a list.
UpdaterNext ==
    \/ \E prev \in PrevLists, c \in StreamChunks : UpdaterQueued(prev, c)
    \/ UpdaterCalled
    \/ UpdaterDone

\* The conversation: typing, sending, the response stream.
ConversationNext ==
    \/ \E t \in InputTexts : SetInput(t)
    \/ handleSendMessage
    \/ handleSendMessageIgnored
    \/ StreamOpened
    \/ \E c \in StreamChunks : StreamChunk(c)
    \/ StreamEnded
    \/ \E m \in ErrorMessages : ChatFailed(m)

\* The settings and what they put into the request.
SettingsNext ==
    \/ ToggleSearch
    \/ ToggleThinking
    \/ ToggleLite
    \/ ToggleMaps
    \/ \E p \in Positions : PositionFound(p)
    \/ PositionFailed
    \/ \E t \in {<<>>, <<"h">>} : SetInput(t)
    \/ handleSendMessage
    \/ StreamOpened
    \/ StreamEnded
    \/ ChatFailed("")

ChatNext == ConversationNext \/ SettingsNext

\* The steps of handleGenerate that the browser and the vendor take.
VideoProgress ==
    \/ ImageEncoded
    \/ \E op \in Operations : VideosRequested(op)
    \/ TimePasses
    \/ TimerFired
    \/ \E op \in Operations : OperationPolled(op)
    \/ VideoFetched
    \/ BlobRead
    \/ \E m \in VideoErrors : VideoCallFailed(m)

VideoNext ==
    \/ \E has \in BOOLEAN : CheckKey(has)
    \/ KeySelected
    \/ KeyDialogDismissed
    \/ KeyDialogFailed
    \/ \E p \in Prompts, i \in BOOLEAN, a \in AspectRatios : EditForm(p, i, a)
    \/ handleGenerateRefused
    \/ handleGenerate
    \/ VideoProgress

EncoderNext == \E b \in Blocks : OnAudioProcess(b)

\* LiveConversation with its microphone path and no server messages.
MicrophoneNext ==
    \/ SessionNext
    \/ \E a \in SessionIds : AudioBlockReady(a)
    \/ \E a \in SessionIds : onaudioprocess(a)

Init ==
    /\ LiveInit /\ TranscriberInit /\ HandlerInit /\ ExtractInit /\ ChatInit
    /\ VideoInit /\ EncoderInit /\ MicInit /\ UpdaterInit

Next ==
    \/ LiveNext \/ TranscriberNext \/ HandlerNext \/ ExtractNext \/ ChatNext
    \/ VideoNext \/ EncoderNext \/ MicrophoneNext \/ AnalyzeNext \/ UpdaterNext

SessionSpec == Init /\ [][TranscriptNext]_vars

PlaybackSpec == Init /\ [][PlaybackNext]_vars

TranscriberSpec == Init /\ [][TranscriberNext]_vars

HandlerSpec == Init /\ [][HandlerNext]_vars

ExtractSpec == Init /\ [][ExtractNext]_vars

AnalyzeSpec == Init /\ [][AnalyzeNext]_vars

UpdaterSpec == Init /\ [][UpdaterNext]_vars

ConversationSpec == Init /\ [][ConversationNext]_vars

SettingsSpec == Init /\ [][SettingsNext]_vars

EncoderSpec == Init /\ [][EncoderNext]_vars

MicrophoneSpec == Init /\ [][MicrophoneNext]_vars

\* Timers fire and pending calls settle: a suspended handleGenerate is resumed.
VideoSpec == Init /\ [][VideoNext]_vars /\ WF_vars(VideoProgress)

Spec == Init /\ [][Next]_vars

\* ------------------------------------------------------------- claims C1-C6

\* The entries of the log that are calls to source.start().
IsStart(i) == playLog[i].kind = "start"

\* C1: with no interruption (and no stop) between them, every chunk is started
\* no earlier than the end of the chunk scheduled before it and no earlier than
\* the output clock's time at the moment it is started; the playback intervals
\* of two chunks do not overlap; and while the queue has not run dry a chunk
\* starts exactly at the end of the previous one.
C1_GaplessScheduling ==
    \A i \in 1..Len(playLog) :
        IsStart(i) =>
            /\ playLog[i].at >= playLog[i].now
            /\ (i > 1 /\ IsStart(i - 1) /\ playLog[i - 1].ctx = playLog[i].ctx) =>
                LET p == playLog[i - 1]
                    e == playLog[i]
                IN  /\ e.at >= p.at + p.dur
                    /\ Max(e.at, e.now) >= Max(p.at, p.now) + p.dur
                    /\ (p.at + p.dur >= e.now => e.at = p.at + p.dur)

\* C2: audio chunks are started in the order in which their messages arrived
\* (chunk ids number the messages in arrival order).
C2_ArrivalOrder ==
    \A i, j \in 1..Len(playLog) :
        (i < j /\ IsStart(i) /\ IsStart(j)) => playLog[i].id < playLog[j].id

\* C3: when a turnComplete message is handled, the entry appended to the
\* transcript is the turn accumulated since the previous turnComplete (the
\* texts of this message included), and the turn in progress is reset.
C3_TurnCompleteAppendsAccumulated ==
    [][(mounted /\ nMsgs' = nMsgs + 1 /\ message'.turnComplete) =>
          /\ transcription' =
                Append(transcription,
                       [user |-> currentTurn.user \o message'.inT,
                        model |-> currentTurn.model \o message'.outT])
          /\ currentTurn' = EmptyTurn]_vars

\* Every media handle of LiveConversation is released.
Released ==
    /\ \A a \in SessionIds :
        /\ micStream[a] # "live"
        /\ scriptProc[a] # "connected"
        /\ inputCtx[a] # "running"
        /\ outputCtx[a] # "running"
        /\ liveSession[a] \notin {"connecting", "open"}
    /\ \A c \in ChunkIds : sourceState[c] # "scheduled"

\* Nothing that startSession, stopSession or an onmessage handler started is
\* still pending: no getUserMedia, no connect, no close event, no decoding.
\* From here on only a click or an unsolicited server event runs any code.
LiveQuiescent ==
    /\ \A a \in SessionIds :
        /\ startPc[a] # "getUserMedia"
        /\ liveSession[a] \notin {"connecting", "closing"}
    /\ decoding = {}

\* C4: after the component unmounts, every media handle it acquired is
\* eventually released: once it is unmounted and nothing is pending, every
\* handle has been released.
C4_UnmountReleases == (~mounted /\ LiveQuiescent) => Released

\* C5: whenever the session is marked inactive, no microphone stream with live
\* tracks is retained and no open live session is referenced.
C5_InactiveHoldsNothing ==
    (mounted /\ ~isSessionActive) =>
        /\ mediaStreamRef = 0 \/ micStream[mediaStreamRef] # "live"
        /\ sessionPromiseRef = 0 \/ liveSession[sessionPromiseRef] # "open"

\* C6: when startSession fails, the user is alerted, the session is marked
\* inactive and the handles acquired by the failed attempt (its two audio
\* contexts, its microphone stream) are released.
C6_FailedStartReleases ==
    [][\A a \in SessionIds :
          (startPc[a] # "failed" /\ startPc'[a] = "failed") =>
              /\ liveAlert' = "microphone"
              /\ mounted => ~isSessionActive'
              /\ inputCtx'[a] # "running"
              /\ outputCtx'[a] # "running"
              /\ micStream'[a] # "live"]_vars

\* ------------------------------------------------------------- claims C7-C8

LiveStreams == {r \in RecorderIds : recStream[r] = "live"}

\* Nothing that a handler of AudioTranscriber started is still pending.
TrQuiescent ==
    \A r \in RecorderIds :
        /\ recorder[r] \notin {"requested", "stopping"}
        /\ stopPc[r] \notin {"fileToBase64", "generateContent"}

\* C7: after AudioTranscriber unmounts, the microphone tracks it acquired are
\* eventually stopped: once it is unmounted and nothing is pending, no stream
\* has live tracks.
C7_TranscriberUnmountStopsTracks == (~trMounted /\ TrQuiescent) => LiveStreams = {}

\* C8: when the processing of a stopped recording ends, the tracks of that
\* recording are stopped, the chunk buffer is empty, isRecording and isLoading
\* are false and the text is the vendor's transcription or the fixed error
\* text; and the component never holds more than one live microphone stream.
C8_ProcessedRecordingAndOneStream ==
    [][trMounted =>
        /\ Cardinality(LiveStreams') <= 1
        /\ \A r \in RecorderIds :
            (stopPc[r] # "done" /\ stopPc'[r] = "done") =>
                /\ recStream'[r] = "stopped"
                /\ audioChunksRef' = <<>>
                /\ ~isRecording'
                /\ ~trIsLoading'
                /\ trTranscription' \in VendorTexts \cup {TranscribeErrorText}]_vars

\* ------------------------------------------------------------ claims C9-C10

\* C9: in every handler that raises a loading flag, a failure of an awaited
\* call is caught inside the handler, is shown to the user (alert or inline
\* error text), does not leave the handler, and the loading flag is false when
\* the handler has finished.
C9_FailureCaughtSurfacedLoadingReset ==
    \A h \in LoadingHandlers :
        (failed[h] /\ running # h) =>
            /\ surfaced[h] \in {"alert", "inline"}
            /\ ~escaped[h]
            /\ ~isLoading[h]

\* Every handler with a loading flag has run and failed.
C9_Witness == \A h \in LoadingHandlers : failed[h] /\ running # h

\* C10: after a call fails inside a handler, that handler issues no further
\* vendor request (nothing is retried, a failed poll ends the polling): a
\* request is issued only by a user action that starts a run, or by a run in
\* flight in which nothing has failed.
C10_NoRequestAfterFailure ==
    [][/\ \A h \in Handlers : (failed'[h] /\ ~failed[h]) => running' # h
       /\ requests' # requests =>
            \/ running = "none" /\ running' # "none"
            \/ running # "none" /\ running' = running /\ ~failed[running]
                 /\ ~failed'[running]]_vars

\* A poll of the video generation has failed after the request went out.
C10_Witness ==
    /\ failed["handleGenerate"]
    /\ running = "none"
    /\ hpc = 4
    /\ requests >= 2

\* ---------------------------------------------------------------- claim C11

InFlight == {"generateContentStream", "streaming"}

Alternates(ms) ==
    /\ Len(ms) % 2 = 0
    /\ \A i \in 1..Len(ms) :
          ms[i].sender = IF i % 2 = 1 THEN "user" ELSE "bot"

\* C12: the chat message list always alternates user, bot, ... starting with
\* a user message; an accepted send appends exactly the user message with the
\* submitted input and one bot message, and no other step adds or removes a
\* message.
C12_MessagesAlternate ==
    [][/\ Alternates(messages')
       /\ IF nSends' # nSends
          THEN /\ Len(messages') = Len(messages) + 2
               /\ SubSeq(messages', 1, Len(messages)) = messages
               /\ messages'[Len(messages) + 1] =
                     [sender |-> "user", text |-> input, sources |-> <<>>]
               /\ messages'[Len(messages) + 2].sender = "bot"
          ELSE Len(messages') = Len(messages)]_vars

\* Two sends have been accepted and the second has failed.
C12_Witness == nSends = 2 /\ chatPc = "failed" /\ Len(messages) = 4

IsIn(x, seq) == \E i \in 1..Len(seq) : seq[i] = x

\* C13: the request sent by handleSendMessage has the googleSearch tool iff
\* Search Grounding is on, the googleMaps tool iff Maps Grounding is on, a
\* latitude/longitude retrieval config iff Maps Grounding is on and a location
\* is known, and no config object when no setting contributes a field.
C13_RequestPayload ==
    [][nSends' # nSends =>
          /\ IsIn("googleSearch", requestPayload'.tools) <=> useSearch
          /\ IsIn("googleMaps", requestPayload'.tools) <=> useMaps
          /\ ("tools" \in requestPayload'.configKeys) <=> (useSearch \/ useMaps)
          /\ ("toolConfig" \in requestPayload'.configKeys)
                <=> (useMaps /\ userLocation # "null")
          /\ (requestPayload'.latLng # "null")
                <=> (useMaps /\ userLocation # "null")
          /\ (useMaps /\ userLocation # "null") => requestPayload'.latLng = userLocation
          /\ (~useSearch /\ ~useMaps /\ ~useThinking) => ~requestPayload'.hasConfig
          /\ requestPayload'.hasConfig => (useSearch \/ useMaps \/ useThinking)]_vars

\* A request went out with maps grounding and a location but no search tool.
C13_Witness ==
    /\ nSends > 0
    /\ requestPayload.latLng # "null"
    /\ requestPayload.tools = <<"googleMaps">>

\* C14: at most one chat request is in flight: a send is accepted (a message
\* appended, a request built) only when no send is loading and the input is
\* not blank, and a call of handleSendMessage that is refused changes nothing.
C14_SingleRequestInFlight ==
    [][/\ (chatPc \in InFlight) => chatIsLoading
       /\ (nSends' # nSends \/ requestPayload' # requestPayload
              \/ Len(messages') # Len(messages))
             => (nSends' = nSends + 1 /\ chatPc \notin InFlight
                   /\ ~chatIsLoading /\ Trim(input) # <<>>)
       /\ (sendOutcome' = "ignored" /\ sendOutcome # "ignored")
             => UNCHANGED <<messages, input, chatIsLoading, chatError, chatPc,
                            requestPayload, chunks, nSends>>]_vars

\* handleSendMessage was called while a send was streaming, and was refused.
C14_Witness == sendOutcome = "ignored" /\ chatPc = "streaming" /\ nSends = 1

\* The concatenation of the texts of the chunks that have one.
RECURSIVE ChunkTexts(_)
ChunkTexts(cs) ==
    IF cs = <<>> THEN <<>>
    ELSE (IF Head(cs).text # NoText THEN <<Head(cs).text>> ELSE <<>>)
            \o ChunkTexts(Tail(cs))

\* The sources of the last chunk that carried any.
RECURSIVE LastSources(_)
LastSources(cs) ==
    IF cs = <<>> THEN <<>>
    ELSE IF Len(cs[Len(cs)].sources) > 0 THEN cs[Len(cs)].sources
    ELSE LastSources(SubSeq(cs, 1, Len(cs) - 1))

\* C15: while a response streams, each chunk's text is appended once, in
\* arrival order, to the bot message of that send and to no other message, so
\* at the end of the stream that message's text is the concatenation of the
\* chunk texts and its sources are those of the last chunk that had any.
C15_StreamAppends ==
    [][(chatPc' \in {"streaming", "idle"} /\ nSends' > 0) =>
          /\ messages'[2 * nSends'].text = ChunkTexts(chunks')
          /\ messages'[2 * nSends'].sources = LastSources(chunks')
          /\ nSends' = nSends =>
                \A i \in 1..Len(messages) :
                    i # 2 * nSends => messages'[i] = messages[i]]_vars

\* C16: when a send fails before or during streaming, the inline error is the
\* error message, the bot message of the turn has exactly that text (streamed
\* text is discarded), no message is appended, and isLoading becomes false.
C16_FailureReplacesBotText ==
    [][(chatPc \in InFlight /\ chatPc' = "failed") =>
          /\ \E m \in ErrorMessages : chatError' = ErrorText(m)
          /\ Len(messages') = Len(messages)
          /\ messages'[2 * nSends].sender = "bot"
          /\ messages'[2 * nSends].text = chatError'
          /\ \A i \in 1..Len(messages) :
                i # 2 * nSends => messages'[i] = messages[i]
          /\ ~chatIsLoading']_vars

\* A send failed after a chunk had been streamed into the bot message.
C16_Witness ==
    /\ chatPc = "failed"
    /\ Len(chunks) > 0
    /\ chunks[1].text # NoText
    /\ messages[2 * nSends].text = chatError

\* ---------------------------------------------------------------- claim C17

\* C17: handleGenerate polls the operation until it reports done, waits 10
\* seconds before each poll and never polls an operation that is done; the
\* handler eventually finishes with isLoading false; videoUrl is cleared at
\* the start of every run and is non-null afterwards only if the operation
\* completed with a download link that was fetched.
C17_PollingAndVideoUrl ==
    /\ [][/\ (vgPc' = "getVideosOperation" /\ vgPc # "getVideosOperation") =>
                (~operation.done /\ vgPc = "setTimeout" /\ vgElapsed >= pollDelay)
          /\ (vgPc' = "fetch" /\ vgPc # "fetch") =>
                (operation'.done /\ operation'.link)
          /\ nRuns' # nRuns => videoUrl' = 0]_vars
    /\ [](vgPc = "idle" => ~vgIsLoading)
    /\ []((vgPc = "idle" /\ videoUrl # 0) =>
             (operation.done /\ operation.link /\ vgFetched /\ videoUrl = nRuns))
    /\ (vgIsLoading ~> (vgPc = "idle" /\ ~vgIsLoading))

\* A run finished with a video after the operation had been polled.
C17_Witness == vgPc = "idle" /\ videoUrl # 0 /\ nPolls > 0 /\ ~vgIsLoading

\* ---------------------------------------------------------------- claim C18

\* C18: every captured sample s in [-1, 1] becomes the 16-bit value s*32768
\* truncated toward zero, inside [-32768, 32767] and with the sign of s (a
\* sample of 1.0 does not become negative), and every block is encoded into
\* one message of mime type audio/pcm;rate=16000.
C18_PcmEncoding ==
    /\ nBlobs = nBlocks
    /\ Len(int16) > 0 =>
          /\ Len(int16) = Len(inputData)
          /\ pcmBlob.mimeType = "audio/pcm;rate=16000"
          /\ Len(pcmBlob.bytes) = 2 * Len(inputData)
          /\ \A i \in 1..Len(inputData) :
                /\ int16[i] = Truncate(inputData[i], SampleUnit \div pcmScale)
                /\ int16[i] >= -32768 /\ int16[i] <= 32767
                /\ inputData[i] > 0 => int16[i] >= 0
                /\ inputData[i] < 0 => int16[i] <= 0

\* ---------------------------------------------------------------- claim C19

\* The sources the interruption branch of onmessage finds in the tracked set
\* are stopped, the set is emptied and the next start time is 0.
InterruptionHandled(found) ==
    /\ sourcesRef' = {}
    /\ nextStartTimeRef' = 0
    /\ \A c \in found : sourceState'[c] = "stopped"

IsOnClose(a) == liveSession[a] # "closed" /\ liveSession'[a] = "closed"

\* This step runs the onerror callback of session a while a is no longer the
\* session the component holds.
IsLateOnError(a) ==
    /\ sessionPromiseRef # a
    /\ liveSession[a] \in {"connecting", "open"}
    /\ liveSession'[a] = "closing"
    /\ closeQueued'[a] = closeQueued[a]

\* Session b was started by a later click than session a.
StartedAfter(b, a) == a < b /\ startPc[b] # "unused"

\* C20: a close or error callback of an earlier session leaves a session
\* started later untouched: its connection, its microphone stream, its two
\* audio contexts and the active flag stay as they were.
C20_StaleCallbackLeavesLaterSession ==
    [][\A a, b \in SessionIds :
          (StartedAfter(b, a) /\ (IsOnClose(a) \/ IsLateOnError(a)))
              => /\ liveSession'[b] = liveSession[b]
                 /\ closeQueued'[b] = closeQueued[b]
                 /\ micStream'[b] = micStream[b]
                 /\ inputCtx'[b] = inputCtx[b]
                 /\ outputCtx'[b] = outputCtx[b]
                 /\ isSessionActive' = isSessionActive]_vars

\* ---------------------------------------------------------------- claim C21

\* The last message was an interruption without audio, handled on arrival,
\* and the suspended handler d belongs to a message that arrived before it.
ArrivedBeforeInterruption(d) ==
    message.interrupted /\ message.audio = 0 /\ d.id < nMsgs

\* C21: a chunk whose message arrived before an interruption is not started
\* once that interruption has been handled, and from stopSession until the
\* next startSession the set of tracked sources is empty, also when a chunk
\* was being decoded while stopSession ran.
C21_NoStaleChunkStarted ==
    /\ [](StoppedSinceStart => sourcesRef = {})
    /\ [][\A d \in decoding \ decoding' :
             ArrivedBeforeInterruption(d) => sourceState'[d.id] = sourceState[d.id]]_vars

\* ---------------------------------------------------------------- claim C22

\* C22: no realtime input is sent to a session on which close() has been
\* invoked, and none is sent between stopSession and the next startSession,
\* whenever the queued audioprocess events are dispatched.
C22_NoInputAfterStop ==
    \A r \in realtimeInput : ~r.closeInvoked /\ ~r.stopped

\* ---------------------------------------------------------------- claim C23

\* C23: for every setting of the Thinking Mode and Low-Latency Mode toggles
\* the request's model is gemini-2.5-flash-lite when Low-Latency is on,
\* gemini-2.5-pro when only Thinking is on and gemini-2.5-flash otherwise, and
\* the request carries a thinkingConfig, of budget 32768, only when its model
\* is gemini-2.5-pro.
C23_ThinkingOnlyForPro ==
    [][nSends' # nSends =>
          /\ requestPayload'.model =
                IF useLite THEN "gemini-2.5-flash-lite"
                ELSE IF useThinking THEN "gemini-2.5-pro"
                ELSE "gemini-2.5-flash"
          /\ ("thinkingConfig" \in requestPayload'.configKeys)
                => /\ requestPayload'.model = "gemini-2.5-pro"
                   /\ requestPayload'.thinkingBudget = thinkingBudget
          /\ requestPayload'.thinkingBudget # 0
                => "thinkingConfig" \in requestPayload'.configKeys]_vars

\* ---------------------------------------------------------------- claim C24

\* C24: the video generation form is shown (isKeyReady is true) only when an
\* API key has been selected: hasSelectedApiKey answered true or the user chose
\* a key in the dialog; closing the dialog without a choice does not make
\* isKeyReady true.
C24_ReadyOnlyWithKey == isKeyReady => selectedKey

\* ---------------------------------------------------------------- claim C25

\* This step ends a run of handleGenerate in its catch block.
IsGenerateCatch == vgPc # "idle" /\ vgPc' = "idle" /\ vgAlert' \in {"key", "failed"}

\* This step is a handleGenerate refused for want of a prompt and an image.
IsGenerateRefused == vgAlert' = "input" /\ vgAlert # "input"

\* C25: a failure of the video generation whose message contains "Requested
\* entity was not found" sets isKeyReady to false; every other failure, and
\* the refusal of an empty form, leaves isKeyReady unchanged; and none of them
\* changes the prompt, the image or the aspect ratio.
C25_KeyResetOnlyOnNotFound ==
    [][/\ IsGenerateCatch =>
             /\ Includes(vgError', keyPhrase) => ~isKeyReady'
             /\ ~Includes(vgError', keyPhrase) => isKeyReady' = isKeyReady
             /\ UNCHANGED <<vgPrompt, vgImage, aspectRatio>>
       /\ IsGenerateRefused =>
             UNCHANGED <<isKeyReady, vgPrompt, vgImage, aspectRatio>>]_vars

\* A run failed with a longer message that contains the phrase and the key
\* selector is shown again.
C25_Witness ==
    /\ vgError = <<"404: ", keyPhrase, " (models/veo)">>
    /\ vgAlert = "key"
    /\ ~isKeyReady
    /\ vgPc = "idle"

\* ---------------------------------------------------------------- claim C26

\* extractFrames is pending and can no longer settle: its promise is not
\* resolved, no seek is outstanding and nothing else resolves or rejects it.
ExtractHangs == efPc = "stuck"

\* C26: extractFrames always settles, so analyzeVideo reaches its finally
\* block and isLoading returns to false: the promise never stays pending
\* (neither without a 2d context nor for a duration that is not a number), and
\* it resolves with at least one frame.
C26_AnalyzeVideoSettles ==
    /\ ~ExtractHangs
    /\ efPc = "resolved" => Len(efResult) >= 1

\* ---------------------------------------------------------------- claim C27

\* C27: whenever Maps Grounding is off the stored user location is null, also
\* when the toggle is switched while a geolocation lookup is pending.
C27_NoLocationWhenMapsOff == ~useMaps => userLocation = "null"

\* ---------------------------------------------------------------- claim C28

\* C28: the stream updater modifies neither the list it is given nor any
\* message object of it, and called twice on the same previous state it
\* returns what it returned the first time (the chunk's text is appended once).
C28_UpdaterIsPure ==
    /\ updPc \in {"once", "twice"} => updPrev = updGiven
    /\ updPc = "twice" => updTwice = updOnce

====
